---- MODULE Spec2Model ----
(***************************************************************************)
(* Model of the Atlassian OAuth subsystem of sidekick:                     *)
(*   - OAuthHandler (src/app/oauth_handler.py): CSRF state cache,          *)
(*     handle_callback and its three HTTP calls, token persistence;        *)
(*   - the token managers (src/tools/simple_token_manager.py,              *)
(*     src/tools/agentcore_token_manager.py,                               *)
(*     src/tools/env_token_manager.py);                                    *)
(*   - AtlassianAPIClient._request (src/tools/atlassian_api_client.py):    *)
(*     bearer header, tenacity retry wrapper, status mapping, the          *)
(*     401 -> refresh -> reissue cycle.                                    *)
(* Every `await` of the source is a step boundary of its coroutine.        *)
(***************************************************************************)
EXTENDS Integers, Sequences, FiniteSets, TLC

\* ---------------------------------------------------------------- bounds
\* Largest value of the clock (seconds).
MaxNow == 601

\* ------------------------------------------------------------- constants
\* oauth_handler.py:108  `if age_seconds > 600`
STATE_TTL == 600
\* simple_token_manager.py:222  token_data.get("expires_in", 3600)
DEFAULT_EXPIRES_IN == 3600
\* atlassian_api_client.py:327  stop_after_attempt(3)
MAX_ATTEMPTS == 3

\* Python's None, and the values `not x` treats as false for a string.
None == "None"
Falsy(x) == x = None \/ x = ""

\* -------------------------------------------------------------- domains
\* Values secrets.token_urlsafe(32) can return (oauth_handler.py:75).
States == {"s1", "s2"}
\* Seconds the clock can advance in one step.
TickSteps == {300, 301}
\* Access / refresh tokens the token endpoint can hand out.
AccessTokens == {"at1", "at2"}
RefreshTokens == {"rt1"}
\* The token endpoint never hands out an access token twice: the grant
\* answered to coroutine p carries IssuedTo(p).
IssuedTo(p) == IF p \in {"p1", "c1"} THEN "at1" ELSE "at2"
\* expires_in values the token endpoint can send.
ExpiresIns == {300}
\* Coroutines running handle_callback, coroutines running request().
CbProcs == {"p1", "p2"}
Clients == {"c1"}
\* Token manager classes an OAuthHandler / AtlassianAPIClient can be built on.
Managers == {"simple", "agentcore", "env"}

\* oauth_handler.py:299  placeholder stored when no refresh_token comes back
NO_REFRESH_TOKEN == "no-refresh-token"
NoRecord == [absent |-> TRUE]

\* dict.get(key, default)
DictGet(d, key, default) == IF key \in DOMAIN d THEN d[key] ELSE default

\* JSON bodies of a 200 answer of the token endpoint: any subset of the three
\* keys, access_token possibly the empty string.
TokenKeys == {"access_token", "refresh_token", "expires_in"}
TokenDataFull(p) ==
    [access_token : {IssuedTo(p), ""},
     refresh_token : RefreshTokens,
     expires_in : ExpiresIns]
TokenData(p) ==
    {[k \in K |-> full[k]] : full \in TokenDataFull(p), K \in SUBSET TokenKeys}

VARIABLES
    now,            \* datetime.utcnow(), in seconds
    manager,        \* class of self.token_manager
    has_config,     \* token_manager.oauth_config is set
    token_storage,  \* the user's token record (in-memory dict entry / backend record)
    env_token,      \* os.getenv("ATLASSIAN_ACCESS_TOKEN")
    state_cache,    \* OAuthHandler._state_cache : state -> issue time
    issued,         \* history: states generate_auth_url has returned
    consumed,       \* history: states presented to handle_callback while pending
    cb,             \* per coroutine: the handle_callback invocation it runs
    req,            \* per coroutine: the request() invocation it runs
    call,           \* the latest direct call of a token manager method
    hist,           \* history: the last store_tokens that returned True;
                    \*          a revoke since the last store
    provider,       \* the authorization server: the refresh token it accepts
                    \*          and the access tokens the API accepts
    config          \* an AtlassianOAuthConfig construction: its arguments
                    \*          and how it ended

vars == <<now, manager, has_config, token_storage, env_token, state_cache,
          issued, consumed, cb, req, call, hist, provider, config>>


\* No AtlassianOAuthConfig is being constructed.
NoConfig == [pc |-> "none"]

\* ------------------------------------------------------------ token store
\* The record store_tokens writes: expires_at = utcnow() + expires_in, all
\* fields replaced together.
NewRecord_ExpiresAtOnce(access_token, refresh_token, expires_in, token_type, t) ==
    [access_token |-> access_token,
     refresh_token |-> refresh_token,
     token_type |-> token_type,
     expires_at |-> t]
NewRecord(access_token, refresh_token, expires_in, token_type, t) ==
    [access_token |-> access_token,
     refresh_token |-> refresh_token,
     token_type |-> token_type,
     expires_at |-> t + expires_in]

\* The authorization server when it plays no part.
NoProvider == [refresh_token |-> None, access_tokens |-> {}]

\* The arguments of a store_tokens call.
StoreArgs(access_token, refresh_token, expires_in, token_type) ==
    [access_token |-> access_token, refresh_token |-> refresh_token,
     expires_in |-> expires_in, token_type |-> token_type]
NoArgs == StoreArgs(None, None, 0, None)

\* History of the store: nothing stored yet, nothing revoked.
NoHist == [stored |-> FALSE, args |-> NoArgs, t |-> 0, revoked |-> FALSE]
\* History after a store_tokens call with these arguments returned True at t.
Stored(args, t) == [stored |-> TRUE, args |-> args, t |-> t, revoked |-> FALSE]

\* Outcomes of one store_tokens call, by token manager.
\*   "ok"            the record is written, True is returned
\*   "false"         False is returned (EnvTokenManager; AgentCore `except Exception`)
\*   "ClientError" / "BotoCoreError"   re-raised by AgentCoreTokenManager
StoreOutcomes(m) ==
    CASE m = "simple" -> {"ok"}
      [] m = "agentcore" -> {"ok", "false", "ClientError", "BotoCoreError"}
      [] OTHER -> {"false"}

\* What the user's entry holds after a write: the new record replaces the
\* old one as a whole (simple_token_manager.py:63-68, one dict assignment;
\* agentcore_token_manager.py:72-86, one backend call with all fields).
Written_KeepRefreshToken(old, new) ==
    IF old = NoRecord THEN new
    ELSE [new EXCEPT !.refresh_token = old.refresh_token]
Written(old, new) == new

\* The effect of one store_tokens(args) call with this outcome, made at now.
StoreEffect_WriteThenFail(args, outcome) ==
    /\ token_storage' =
          Written(token_storage,
                  NewRecord(args.access_token, args.refresh_token,
                            args.expires_in, args.token_type, now))
    /\ hist' = IF outcome = "ok" THEN Stored(args, now) ELSE hist
StoreEffect(args, outcome) ==
    /\ token_storage' =
          IF outcome = "ok"
          THEN Written(token_storage,
                       NewRecord(args.access_token, args.refresh_token,
                                 args.expires_in, args.token_type, now))
          ELSE token_storage
    /\ hist' = IF outcome = "ok" THEN Stored(args, now) ELSE hist

\* --------------------------------------------------------- OAuth handler
IdleCb ==
    [pc |-> "idle", state |-> None,
     seen |-> None, age |-> 0, validated |-> FALSE,
     access_token |-> None, refresh_token |-> None, expires_in |-> 0,
     cloud_id |-> None, user_info |-> None, result |-> None,
     token_calls |-> 0, resource_calls |-> 0, userinfo_calls |-> 0,
     store_calls |-> 0, exchange |-> None, store_outcome |-> None]

\* OAuthHandler.generate_auth_url: a new random state is recorded with the
\* current time.  token_urlsafe(32) is 256 random bits, so the value is one
\* that was never returned before.
GenerateAuthUrl(s) ==
    /\ s \notin issued
    /\ state_cache' = [x \in DOMAIN state_cache \cup {s} |->
                          IF x = s THEN now ELSE state_cache[x]]
    /\ issued' = issued \cup {s}
    /\ UNCHANGED <<now, manager, has_config, token_storage, env_token,
                   consumed, cb, req,
                   call, hist, provider, config>>

\* OAuthHandler._validate_state: the boolean it returns ...
ValidateState_Inclusive(cache, s, t) ==
    s \in DOMAIN cache /\ ~(t - cache[s] >= STATE_TTL)
ValidateState_AcceptUnknown(cache, s, t) ==
    s \notin DOMAIN cache \/ ~(t - cache[s] > STATE_TTL)
ValidateState(cache, s, t) ==
    IF s \notin DOMAIN cache
    THEN FALSE
    ELSE ~(t - cache[s] > STATE_TTL)

\* ... and the cache it leaves: the entry is deleted on both paths that
\* find it.
StateCacheAfter_KeepExpired(cache, s, t) ==
    IF s \in DOMAIN cache /\ ~(t - cache[s] > STATE_TTL)
    THEN [x \in DOMAIN cache \ {s} |-> cache[x]]
    ELSE cache
StateCacheAfter_KeepValid(cache, s, t) ==
    IF s \in DOMAIN cache /\ (t - cache[s] > STATE_TTL)
    THEN [x \in DOMAIN cache \ {s} |-> cache[x]]
    ELSE cache
StateCacheAfter(cache, s, t) ==
    IF s \in DOMAIN cache
    THEN [x \in DOMAIN cache \ {s} |-> cache[x]]
    ELSE cache

\* History: what the handler knew of state s when a callback presented it.
Seen(s) ==
    CASE s \in DOMAIN state_cache -> "pending"
      [] s \in consumed -> "consumed"
      [] OTHER -> "never_issued"

\* handle_callback up to its first await: _validate_state runs without
\* suspension; a rejected state returns invalid_state at once.
HandleCallback(p, s) ==
    /\ cb[p].pc = "idle"
    /\ LET ok == ValidateState(state_cache, s, now)
           wasPending == s \in DOMAIN state_cache
       IN /\ state_cache' = StateCacheAfter(state_cache, s, now)
          /\ consumed' = IF wasPending THEN consumed \cup {s} ELSE consumed
          /\ cb' = [cb EXCEPT ![p] =
                       [IdleCb EXCEPT
                          !.pc = IF ok THEN "exchange" ELSE "done",
                          !.state = s,
                          !.seen = Seen(s),
                          !.age = IF wasPending THEN now - state_cache[s] ELSE 0,
                          !.validated = ok,
                          !.result = IF ok THEN None ELSE "invalid_state"]]
    /\ UNCHANGED <<now, manager, has_config, token_storage, env_token,
                   issued, req,
                   call, hist, provider, config>>

\* Result of _exchange_code_for_tokens on a 200 answer with body d.
ExchangeResult_NoTokenCheck(d) ==
    [success |-> TRUE,
     access_token |-> DictGet(d, "access_token", None),
     refresh_token |-> DictGet(d, "refresh_token", NO_REFRESH_TOKEN),
     expires_in |-> DictGet(d, "expires_in", DEFAULT_EXPIRES_IN)]
ExchangeResult(d) ==
    LET access_token == DictGet(d, "access_token", None)
        refresh_token == DictGet(d, "refresh_token", None)
    IN IF Falsy(access_token)
       THEN [success |-> FALSE, error |-> "invalid_response"]
       ELSE [success |-> TRUE,
             access_token |-> access_token,
             refresh_token |-> IF Falsy(refresh_token)
                               THEN NO_REFRESH_TOKEN ELSE refresh_token,
             expires_in |-> DictGet(d, "expires_in", DEFAULT_EXPIRES_IN)]

\* Outcomes of the POST to the token endpoint other than a 200 answer.
ExchangeFailures == {"non200", "Timeout", "RequestException", "Exception"}

\* What handle_callback returns for a failed exchange: a non-200 answer and
\* an unexpected exception come back as result dictionaries, Timeout and
\* RequestException are raised as NetworkError and caught at line 232.
ExchangeFailureError_TimeoutUnexpected(kind) ==
    CASE kind = "non200" -> "token_exchange_failed"
      [] kind = "RequestException" -> "network_error"
      [] OTHER -> "unexpected_error"
ExchangeFailureError(kind) ==
    CASE kind = "non200" -> "token_exchange_failed"
      [] kind = "Timeout" -> "network_error"
      [] kind = "RequestException" -> "network_error"
      [] OTHER -> "unexpected_error"

\* await self._exchange_code_for_tokens(code): one POST, no retry.
ExchangeOk(p, d) ==
    /\ cb[p].pc = "exchange"
    /\ LET r == ExchangeResult(d)
       IN cb' = [cb EXCEPT ![p] =
                   IF r.success
                   THEN [@ EXCEPT !.pc = "resources",
                                  !.token_calls = @ + 1,
                                  !.exchange = "ok",
                                  !.access_token = r.access_token,
                                  !.refresh_token = r.refresh_token,
                                  !.expires_in = r.expires_in]
                   ELSE [@ EXCEPT !.pc = "done",
                                  !.token_calls = @ + 1,
                                  !.exchange = "no_access_token",
                                  !.result = r.error]]
    /\ UNCHANGED <<now, manager, has_config, token_storage, env_token,
                   state_cache, issued, consumed, req,
                   call, hist, provider, config>>

ExchangeFail(p, kind) ==
    /\ cb[p].pc = "exchange"
    /\ cb' = [cb EXCEPT ![p] =
                [@ EXCEPT !.pc = "done",
                          !.token_calls = @ + 1,
                          !.exchange = kind,
                          !.result = ExchangeFailureError(kind)]]
    /\ UNCHANGED <<now, manager, has_config, token_storage, env_token,
                   state_cache, issued, consumed, req,
                   call, hist, provider, config>>

\* await self._get_accessible_resources(access_token): cloud_id of the first
\* resource, None on every failure; the flow continues either way.
ResourceOutcomes == {"ok", "empty", "non200", "Exception"}
GetAccessibleResources(p, outcome) ==
    /\ cb[p].pc = "resources"
    /\ cb' = [cb EXCEPT ![p] =
                [@ EXCEPT !.pc = "userinfo",
                          !.resource_calls = @ + 1,
                          !.cloud_id = IF outcome = "ok" THEN "cloud1" ELSE None]]
    /\ UNCHANGED <<now, manager, has_config, token_storage, env_token,
                   state_cache, issued, consumed, req,
                   call, hist, provider, config>>

\* await self._get_user_info(access_token, cloud_id): no request without a
\* cloud_id; on failure user_info falls back to the user id.
UserInfoOutcomes == {"ok", "non200", "Exception"}
GetUserInfo(p, outcome) ==
    /\ cb[p].pc = "userinfo"
    /\ cb' = [cb EXCEPT ![p] =
                IF Falsy(cb[p].cloud_id)
                THEN [@ EXCEPT !.pc = "store", !.user_info = "fallback"]
                ELSE [@ EXCEPT !.pc = "store",
                               !.userinfo_calls = @ + 1,
                               !.user_info = IF outcome = "ok"
                                             THEN "profile" ELSE "fallback"]]
    /\ UNCHANGED <<now, manager, has_config, token_storage, env_token,
                   state_cache, issued, consumed, req,
                   call, hist, provider, config>>

\* What handle_callback returns after store_tokens.
StoreResult_IgnoreFalse(outcome) ==
    CASE outcome \in {"ok", "false"} -> "success"
      [] OTHER -> "unexpected_error"
StoreResult(outcome) ==
    CASE outcome = "ok" -> "success"
      [] outcome = "false" -> "storage_error"
      [] OTHER -> "unexpected_error"

\* await self.token_manager.store_tokens(...), then the final result.
StoreTokens(p, outcome) ==
    /\ cb[p].pc = "store"
    /\ outcome \in StoreOutcomes(manager)
    /\ StoreEffect(StoreArgs(cb[p].access_token, cb[p].refresh_token,
                              cb[p].expires_in, "Bearer"), outcome)
    /\ cb' = [cb EXCEPT ![p] =
                [@ EXCEPT !.pc = "done",
                          !.store_calls = @ + 1,
                          !.store_outcome = outcome,
                          !.access_token = None,
                          !.refresh_token = None,
                          !.result = StoreResult(outcome)]]
    /\ UNCHANGED <<now, manager, has_config, env_token, state_cache, issued,
                   consumed, req, call, provider, config>>

\* The clock advances.
Tick(d) ==
    /\ now + d <= MaxNow
    /\ now' = now + d
    /\ UNCHANGED <<manager, has_config, token_storage, env_token, state_cache,
                   issued, consumed, cb, req,
                   call, hist, provider, config>>

\* Response headers: a dict from header names to values.
NoHeaders == [h \in {} |-> << >>]
\* An optional integer: << >> is None, <<n>> is n.
NoInt == << >>

\* The dict check_token_status returns; expires_at is << >> for None.
Status(is_valid, is_expired, expires_at, error) ==
    [is_valid |-> is_valid, is_expired |-> is_expired,
     expires_at |-> expires_at, error |-> error]
NoStatus == Status(FALSE, FALSE, << >>, None)
\* History: how many revoke_tokens calls in a row the latest call ends.
MaxInARow == 2
InARow(op) ==
    IF op # "revoke_tokens" THEN 0
    ELSE IF call.in_a_row < MaxInARow THEN call.in_a_row + 1 ELSE MaxInARow
\* A direct call of a token manager method: what was called, with which
\* arguments, when, on which record, how the backend answered, what the
\* call returned (ret) or raised (ret is the exception), and the dict
\* returned when it was check_token_status.
Call(op, args, outcome, ret, status) ==
    [op |-> op, args |-> args, t |-> now, rec |-> token_storage,
     outcome |-> outcome, ret |-> ret, status |-> status,
     in_a_row |-> InARow(op)]
NoCall ==
    [op |-> "none", args |-> NoArgs, t |-> 0, rec |-> NoRecord,
     outcome |-> "ok", ret |-> None, status |-> NoStatus, in_a_row |-> 0]

\* A coroutine that has not called request() yet.
IdleReq ==
    [pc |-> "idle", token |-> None,
     attempts1 |-> 0, attempts2 |-> 0, status1 |-> 0, status2 |-> 0,
     refresh_calls |-> 0, token_posts |-> 0, refresh_ok |-> FALSE,
     refresh_error |-> None, rt |-> None, grant |-> None,
     result |-> None, result_status |-> 0,
     auth |-> None, reauth |-> None, net_fails |-> 0,
     headers1 |-> NoHeaders, retry_after |-> NoInt, rt_sent |-> None,
     pre |-> None, store0 |-> NoRecord,
     log |-> {}, waits1 |-> << >>, waits2 |-> << >>]

\* request() returns or raises: its locals are gone.
Done(r, kind, status) ==
    [r EXCEPT !.pc = "done", !.result = kind, !.result_status = status,
              !.token = None, !.rt = None, !.grant = None]

InitFlow ==
    /\ now = 0
    /\ manager \in {"simple", "agentcore"}
    /\ has_config = TRUE
    /\ token_storage = NoRecord
    /\ env_token = None
    /\ state_cache = << >>
    /\ issued = {}
    /\ consumed = {}
    /\ cb = [p \in CbProcs |-> IdleCb]
    /\ req = [c \in Clients |-> IdleReq]
    /\ call = NoCall
    /\ hist = NoHist
    /\ provider = NoProvider
    /\ config = NoConfig

NextFlow ==
    \/ \E s \in States : GenerateAuthUrl(s)
    \/ \E p \in CbProcs, s \in States : HandleCallback(p, s)
    \/ \E p \in CbProcs : \E d \in TokenData(p) : ExchangeOk(p, d)
    \/ \E p \in CbProcs, k \in ExchangeFailures : ExchangeFail(p, k)
    \/ \E p \in CbProcs, o \in ResourceOutcomes : GetAccessibleResources(p, o)
    \/ \E p \in CbProcs, o \in UserInfoOutcomes : GetUserInfo(p, o)
    \/ \E p \in CbProcs, o \in {"ok", "false", "ClientError", "BotoCoreError"} :
          StoreTokens(p, o)
    \/ \E d \in TickSteps : Tick(d)

SpecFlow == InitFlow /\ [][NextFlow]_vars

\* ------------------------------------------------- token managers (reads)
\* Answers of the AgentCore Identity backend to one invoke_agent call.
\*   "ok"                       the call returns the stored fields
\*   "ResourceNotFoundException" ClientError with that code
\*   "ClientError"              ClientError with another code
\*   "BotoCoreError", "Exception"
BackendOutcomes ==
    {"ok", "ResourceNotFoundException", "ClientError", "BotoCoreError",
     "Exception"}

\* A value standing for "the call raised this exception".
Raised(e) == e
IsRaised(v) == v \in {"ClientError", "BotoCoreError"}

\* SimpleTokenManager.get_access_token: None without a record, None when
\* utcnow() >= expires_at, else the stored access token.
SimpleGetAccessToken(rec, t) ==
    IF rec = NoRecord THEN None
    ELSE IF t >= rec.expires_at THEN None
    ELSE IF Falsy(rec.access_token) THEN None
    ELSE rec.access_token

\* AgentCoreTokenManager.get_access_token: the backend's accessToken, with no
\* expiry check; ResourceNotFoundException and unexpected exceptions give
\* None, other ClientErrors and BotoCoreErrors are re-raised.
AgentCoreGetAccessToken(rec, outcome) ==
    CASE outcome = "ok" ->
            IF rec = NoRecord \/ Falsy(rec.access_token)
            THEN None ELSE rec.access_token
      [] outcome \in {"ClientError", "BotoCoreError"} -> Raised(outcome)
      [] OTHER -> None

\* token_manager.get_access_token() for the configured manager.
GetAccessToken(outcome) ==
    CASE manager = "simple" -> SimpleGetAccessToken(token_storage, now)
      [] manager = "agentcore" -> AgentCoreGetAccessToken(token_storage, outcome)
      [] OTHER -> IF Falsy(env_token) THEN None ELSE env_token

\* SimpleTokenManager.get_refresh_token / AgentCoreTokenManager.get_refresh_token
\* / EnvTokenManager.get_refresh_token.
GetRefreshToken(outcome) ==
    CASE manager = "simple" ->
            IF token_storage = NoRecord \/ Falsy(token_storage.refresh_token)
            THEN None ELSE token_storage.refresh_token
      [] manager = "agentcore" ->
            (CASE outcome = "ok" ->
                     IF token_storage = NoRecord
                           \/ Falsy(token_storage.refresh_token)
                     THEN None ELSE token_storage.refresh_token
               [] outcome \in {"ClientError", "BotoCoreError"} -> Raised(outcome)
               [] OTHER -> None)
      [] OTHER -> None

\* Backend answers that can occur: the in-memory and environment managers
\* have a single outcome.
ReadOutcomes == IF manager = "agentcore" THEN BackendOutcomes ELSE {"ok"}

\* ------------------------------------------------------------- API client
\* Status codes the Atlassian API answers with.
Statuses == {200, 204, 304, 400, 401, 403, 404, 429, 500, 503}
\* Ways one session.request() call fails without a response.
\*   Timeout, ConnectionError: retried by tenacity (line 329)
\*   RequestException: any other requests exception, not retried
NetworkFailures == {"Timeout", "ConnectionError"}
\* A string as the sequence of its characters, so that str.isdigit and int
\* can be computed; header values are ASCII.
DigitChars == {"0", "1", "2", "3", "4", "5", "6", "7", "8", "9"}
DigitValue(ch) ==
    CASE ch = "0" -> 0 [] ch = "1" -> 1 [] ch = "2" -> 2 [] ch = "3" -> 3
      [] ch = "4" -> 4 [] ch = "5" -> 5 [] ch = "6" -> 6 [] ch = "7" -> 7
      [] ch = "8" -> 8 [] ch = "9" -> 9
\* str.isdigit(): at least one character and every character a digit.
isdigit(str) ==
    Len(str) > 0 /\ \A i \in 1..Len(str) : str[i] \in DigitChars
\* int(str) of a digit string.
RECURSIVE int(_)
int(str) ==
    IF Len(str) = 0 THEN 0
    ELSE 10 * int(SubSeq(str, 1, Len(str) - 1)) + DigitValue(str[Len(str)])

\* Values a server sends in Retry-After: delta-seconds, an empty value,
\* something that is no number (an HTTP-date), a decimal fraction.
RetryAfterValues ==
    {<<"5">>, <<"1", "2">>, <<"0">>, << >>, <<"x">>, <<"1", ".", "5">>}
\* Headers of a 429 response.
RateLimitHeaders ==
    {NoHeaders} \cup {[h \in {"Retry-After"} |-> v] : v \in RetryAfterValues}

\* Lines 175-178: int(retry_after) if retry_after and retry_after.isdigit()
\* else None, retry_after being headers.get("Retry-After").
RetrySeconds_Ignored(headers) == NoInt
RetrySeconds(headers) ==
    IF "Retry-After" \in DOMAIN headers
    THEN LET retry_after == headers["Retry-After"]
         IN IF retry_after # << >> /\ isdigit(retry_after)
            THEN <<int(retry_after)>> ELSE NoInt
    ELSE NoInt

HttpOutcomes ==
    [kind : {"response"}, status : Statuses \ {429}, headers : {NoHeaders}]
       \cup [kind : {"response"}, status : {429}, headers : RateLimitHeaders]
       \cup [kind : NetworkFailures \cup {"RequestException"}, status : {0},
              headers : {NoHeaders}]

\* History: the stored record as the caller of request() finds it.
StoreCondition ==
    CASE token_storage = NoRecord -> "absent"
      [] now >= token_storage.expires_at ->
            IF token_storage.refresh_token \in RefreshTokens \cup {"rt0"}
            THEN "expired_refreshable" ELSE "expired"
      [] OTHER -> "valid"

\* History: what get_access_token answered.
Answer(tok) ==
    CASE IsRaised(tok) -> "raised"
      [] tok \in {None, ""} -> "absent"
      [] OTHER -> "token"

\* _get_auth_header, lines 106-109: `if not access_token: raise`.
AuthHeaderMissing_Never(tok) == FALSE
AuthHeaderMissing(tok) == Falsy(tok)

\* SimpleTokenManager.get_access_token, lines 111-124: the secret values
\* written to the log.  The access token is logged in clear the first time
\* the instance returns one (_token_printed is set then).
SimpleGetAccessTokenLog(tok, token_printed) ==
    IF ~Falsy(tok) /\ ~token_printed THEN {tok} ELSE {}
\* The other managers log the user id only.
GetAccessTokenLog(tok, token_printed) ==
    IF manager = "simple" THEN SimpleGetAccessTokenLog(tok, token_printed)
    ELSE {}

\* _request, lines 143-156: _get_auth_header; no token raises
\* InvalidTokenError, an exception of the token manager propagates.
Request(c, outcome) ==
    /\ req[c].pc = "idle"
    /\ outcome \in ReadOutcomes
    /\ LET tok == GetAccessToken(outcome)
           r0 == [req[c] EXCEPT !.pre = StoreCondition,
                                !.store0 = token_storage,
                                !.auth = Answer(tok),
                                !.log = GetAccessTokenLog(tok, FALSE)]
       IN req' = [req EXCEPT ![c] =
                    IF IsRaised(tok) THEN Done(r0, tok, 0)
                    ELSE IF AuthHeaderMissing(tok)
                         THEN Done(r0, "InvalidTokenError", 0)
                    ELSE [r0 EXCEPT !.pc = "send1", !.token = tok]]
    /\ UNCHANGED <<now, manager, has_config, token_storage, env_token,
                   state_cache, issued, consumed, cb,
                   call, hist, provider, config>>

\* Response.raise_for_status: HTTPError for 400 <= status < 600.
RaisesForStatus(status) == status >= 400 /\ status < 600

\* Lines 164-218 and 296-324: the exception (or "response") the first
\* round ends with for a given status.
MapStatus_NoRateLimit(status) ==
    CASE status = 401 -> "TokenExpiredError"
      [] status = 403 -> "PermissionError"
      [] status = 404 -> "ResourceNotFoundError"
      [] status >= 500 -> "ServerError"
      [] RaisesForStatus(status) -> "APIError"
      [] OTHER -> "response"
MapStatus_NotFoundAsResponse(status) ==
    CASE status = 401 -> "TokenExpiredError"
      [] status = 429 -> "RateLimitError"
      [] status = 403 -> "PermissionError"
      [] status >= 500 -> "ServerError"
      [] status # 404 /\ RaisesForStatus(status) -> "APIError"
      [] OTHER -> "response"
MapStatus_401AsApiError(status) ==
    CASE status = 429 -> "RateLimitError"
      [] status = 403 -> "PermissionError"
      [] status = 404 -> "ResourceNotFoundError"
      [] status >= 500 -> "ServerError"
      [] RaisesForStatus(status) -> "APIError"
      [] OTHER -> "response"
MapStatus(status) ==
    CASE status = 401 -> "TokenExpiredError"
      [] status = 429 -> "RateLimitError"
      [] status = 403 -> "PermissionError"
      [] status = 404 -> "ResourceNotFoundError"
      [] status >= 500 -> "ServerError"
      [] RaisesForStatus(status) -> "APIError"
      [] OTHER -> "response"

\* Lines 245-294: what the reissued request ends with.  Every exception
\* raised in the refresh block other than TokenRefreshError is caught by
\* `except Exception` (line 290) and re-raised as TokenRefreshError.
MapStatusAfterRefresh(status) ==
    LET raised ==
          CASE status = 401 -> "InvalidTokenError"
            [] status = 429 -> "RateLimitError"
            [] status = 403 -> "PermissionError"
            [] status = 404 -> "ResourceNotFoundError"
            [] status >= 500 -> "ServerError"
            [] RaisesForStatus(status) -> "HTTPError"
            [] OTHER -> "response"
    IN IF raised = "response" THEN "response" ELSE "TokenRefreshError"

\* tenacity, lines 326-332: a Timeout or ConnectionError is retried until
\* MAX_ATTEMPTS attempts were made, then RetryError is raised (reraise is
\* not set); any other exception leaves the wrapper at once.
RetryAgain_OneMore(kind, attempts) ==
    kind \in NetworkFailures /\ attempts < MAX_ATTEMPTS + 1
RetryAgain(kind, attempts) ==
    kind \in NetworkFailures /\ attempts < MAX_ATTEMPTS

\* wait_exponential(multiplier=1, min=2, max=10), line 328.
WAIT_MULTIPLIER == 1
WAIT_MIN == 2
WAIT_MAX == 10
Maximum(a, b) == IF a >= b THEN a ELSE b
Minimum(a, b) == IF a <= b THEN a ELSE b
\* The seconds tenacity sleeps after failed attempt number attempt_number:
\* wait_exponential.__call__ returns
\* max(max(0, min), min(multiplier * 2 ** (attempt_number - 1), max)).
WaitExponential(attempt_number) ==
    Maximum(Maximum(0, WAIT_MIN),
            Minimum(WAIT_MULTIPLIER * 2 ^ (attempt_number - 1), WAIT_MAX))

\* One attempt of the first _make_request_with_retry round (lines 159-218),
\* and the handlers of lines 296-324 when the round ends.
Send1(c, o) ==
    /\ req[c].pc = "send1"
    /\ LET n == req[c].attempts1 + 1
           r == [req[c] EXCEPT !.attempts1 = n,
                    !.net_fails = IF o.kind \in NetworkFailures
                                  THEN @ + 1 ELSE @]
       IN req' = [req EXCEPT ![c] =
             IF o.kind = "response"
             THEN LET m == MapStatus(o.status)
                      r1 == [r EXCEPT !.status1 = o.status,
                                !.headers1 = o.headers,
                                !.retry_after =
                                   IF m = "RateLimitError"
                                   THEN RetrySeconds(o.headers) ELSE NoInt]
                  IN IF m = "TokenExpiredError"
                     THEN [r1 EXCEPT !.pc = "refresh"]
                     ELSE Done(r1, m, o.status)
             ELSE IF RetryAgain(o.kind, n)
                  THEN [r EXCEPT !.waits1 = Append(@, WaitExponential(n))]
             ELSE IF o.kind \in NetworkFailures THEN Done(r, "RetryError", 0)
             ELSE Done(r, "APIError", 0)]
    /\ UNCHANGED <<now, manager, has_config, token_storage, env_token,
                   state_cache, issued, consumed, cb,
                   call, hist, provider, config>>

\* refresh_access_token up to the POST (simple_token_manager.py:170-191,
\* agentcore_token_manager.py:221-242); EnvTokenManager.refresh_access_token
\* returns None, whose .get raises inside the refresh block.
RefreshBegin(c, outcome) ==
    /\ req[c].pc = "refresh"
    /\ outcome \in ReadOutcomes
    /\ LET r == [req[c] EXCEPT !.refresh_calls = @ + 1]
           rt == GetRefreshToken(outcome)
           fail(e) == Done([r EXCEPT !.refresh_error = e],
                           "TokenRefreshError", 0)
       IN req' = [req EXCEPT ![c] =
             IF manager = "env" THEN fail("AttributeError")
             ELSE IF ~has_config THEN fail("configuration_error")
             ELSE IF rt = "ClientError" /\ manager = "agentcore"
                  THEN fail("aws_error")
             ELSE IF IsRaised(rt) THEN fail("unexpected_error")
             ELSE IF Falsy(rt) THEN fail("no_refresh_token")
             ELSE [r EXCEPT !.pc = "refresh_post", !.rt = rt]]
    /\ UNCHANGED <<now, manager, has_config, token_storage, env_token,
                   state_cache, issued, consumed, cb,
                   call, hist, provider, config>>

\* The arguments refresh_access_token passes to store_tokens for a 200
\* answer with body d; no access token in the body is a failure.
RefreshGrant_KeepOldRefreshToken(d, old_refresh_token) ==
    LET new_access_token == DictGet(d, "access_token", None)
    IN IF Falsy(new_access_token) THEN [access_token |-> None]
       ELSE [access_token |-> new_access_token,
             refresh_token |-> old_refresh_token,
             expires_in |-> DictGet(d, "expires_in", DEFAULT_EXPIRES_IN)]
RefreshGrant(d, old_refresh_token) ==
    LET new_access_token == DictGet(d, "access_token", None)
    IN IF Falsy(new_access_token) THEN [access_token |-> None]
       ELSE [access_token |-> new_access_token,
             refresh_token |-> DictGet(d, "refresh_token", old_refresh_token),
             expires_in |-> DictGet(d, "expires_in", DEFAULT_EXPIRES_IN)]

\* Outcomes of the refresh POST other than a 200 answer.
RefreshFailures == {"non200", "Timeout", "ConnectionError"}

\* The `error` of the result refresh_access_token returns for them: the
\* in-memory manager has a single `except Exception`, the AgentCore manager
\* tells timeouts and connection errors apart.
RefreshFailureError(m, kind) ==
    CASE kind = "non200" -> "unknown_error"
      [] m = "agentcore" /\ kind = "Timeout" -> "timeout"
      [] m = "agentcore" /\ kind = "ConnectionError" -> "connection_error"
      [] OTHER -> "unexpected_error"

\* The `error` of the result when store_tokens does not return True.
RefreshStoreError(outcome) ==
    CASE outcome = "false" -> "storage_error"
      [] outcome = "ClientError" -> "aws_error"
      [] OTHER -> "unexpected_error"

\* The POST to the token endpoint with grant_type=refresh_token.
RefreshPosted(c, d) ==
    /\ req[c].pc = "refresh_post"
    /\ LET r == [req[c] EXCEPT !.token_posts = @ + 1, !.rt_sent = req[c].rt]
           g == RefreshGrant(d, req[c].rt)
       IN req' = [req EXCEPT ![c] =
             IF Falsy(g.access_token)
             THEN Done([r EXCEPT !.refresh_error = "invalid_response"],
                       "TokenRefreshError", 0)
             ELSE [r EXCEPT !.pc = "refresh_store", !.grant = g]]
    /\ UNCHANGED <<now, manager, has_config, token_storage, env_token,
                   state_cache, issued, consumed, cb,
                   call, hist, config>>

RefreshPostOk(c, d) == RefreshPosted(c, d) /\ UNCHANGED provider

RefreshPostFail(c, kind) ==
    /\ req[c].pc = "refresh_post"
    /\ req' = [req EXCEPT ![c] =
                 Done([req[c] EXCEPT !.token_posts = @ + 1,
                                     !.rt_sent = req[c].rt,
                                     !.refresh_error =
                                        RefreshFailureError(manager, kind)],
                      "TokenRefreshError", 0)]
    /\ UNCHANGED <<now, manager, has_config, token_storage, env_token,
                   state_cache, issued, consumed, cb,
                   call, hist, provider, config>>

\* await self.store_tokens(...) inside refresh_access_token, and lines
\* 227-235 of _request: a refresh that did not succeed raises
\* TokenRefreshError.
RefreshProceeds_IgnoreFailure(outcome) == TRUE
RefreshProceeds(outcome) == outcome = "ok"

RefreshStore(c, outcome) ==
    /\ req[c].pc = "refresh_store"
    /\ outcome \in StoreOutcomes(manager)
    /\ StoreEffect(StoreArgs(req[c].grant.access_token,
                              req[c].grant.refresh_token,
                              req[c].grant.expires_in, "Bearer"), outcome)
    /\ req' = [req EXCEPT ![c] =
                 IF RefreshProceeds(outcome)
                 THEN [@ EXCEPT !.pc = "reauth", !.refresh_ok = outcome = "ok",
                                !.rt = None, !.grant = None]
                 ELSE Done([@ EXCEPT !.refresh_error =
                                        RefreshStoreError(outcome)],
                           "TokenRefreshError", 0)]
    /\ UNCHANGED <<now, manager, has_config, env_token, state_cache, issued,
                   consumed, cb, call, provider, config>>

\* Line 238: _get_auth_header again; its InvalidTokenError, like any
\* exception of the token manager, becomes TokenRefreshError (line 290).
Reauth(c, outcome) ==
    /\ req[c].pc = "reauth"
    /\ outcome \in ReadOutcomes
    /\ LET tok == GetAccessToken(outcome)
           r == [req[c] EXCEPT !.reauth = Answer(tok),
                    !.log = @ \cup GetAccessTokenLog(tok, req[c].log # {})]
       IN req' = [req EXCEPT ![c] =
                    IF IsRaised(tok) \/ AuthHeaderMissing(tok)
                    THEN Done(r, "TokenRefreshError", 0)
                    ELSE [r EXCEPT !.pc = "send2", !.token = tok]]
    /\ UNCHANGED <<now, manager, has_config, token_storage, env_token,
                   state_cache, issued, consumed, cb,
                   call, hist, provider, config>>

\* One attempt of the reissued request (lines 241-294).
Send2(c, o) ==
    /\ req[c].pc = "send2"
    /\ LET n == req[c].attempts2 + 1
           r == [req[c] EXCEPT !.attempts2 = n,
                    !.net_fails = IF o.kind \in NetworkFailures
                                  THEN @ + 1 ELSE @]
       IN req' = [req EXCEPT ![c] =
             IF o.kind = "response"
             THEN Done([r EXCEPT !.status2 = o.status],
                       MapStatusAfterRefresh(o.status), o.status)
             ELSE IF RetryAgain(o.kind, n)
                  THEN [r EXCEPT !.waits2 = Append(@, WaitExponential(n))]
             ELSE Done(r, "TokenRefreshError", 0)]
    /\ UNCHANGED <<now, manager, has_config, token_storage, env_token,
                   state_cache, issued, consumed, cb,
                   call, hist, provider, config>>

\* Token records a completed OAuth flow can have left behind.
StoredRecords ==
    [access_token : {"at0"},
     refresh_token : {"rt0", NO_REFRESH_TOKEN},
     token_type : {"Bearer"},
     expires_at : {0, 300, DEFAULT_EXPIRES_IN}]

InitClient ==
    /\ now = 0
    /\ manager \in Managers
    /\ has_config \in BOOLEAN
    /\ \/ manager = "env" /\ token_storage = NoRecord
                          /\ env_token \in {None, "at0"}
       \/ manager # "env" /\ token_storage \in StoredRecords \cup {NoRecord}
                          /\ env_token = None
    /\ state_cache = << >>
    /\ issued = {}
    /\ consumed = {}
    /\ cb = [p \in CbProcs |-> IdleCb]
    /\ req = [c \in Clients |-> IdleReq]
    /\ call = NoCall
    /\ hist = NoHist
    /\ provider = NoProvider
    /\ config = NoConfig

NextClient ==
    \/ \E c \in Clients, o \in BackendOutcomes : Request(c, o)
    \/ \E c \in Clients, o \in HttpOutcomes : Send1(c, o)
    \/ \E c \in Clients, o \in BackendOutcomes : RefreshBegin(c, o)
    \/ \E c \in Clients : \E d \in TokenData(c) : RefreshPostOk(c, d)
    \/ \E c \in Clients, k \in RefreshFailures : RefreshPostFail(c, k)
    \/ \E c \in Clients, o \in {"ok", "false", "ClientError", "BotoCoreError"} :
          RefreshStore(c, o)
    \/ \E c \in Clients, o \in BackendOutcomes : Reauth(c, o)
    \/ \E c \in Clients, o \in HttpOutcomes : Send2(c, o)
    \/ \E d \in TickSteps : Tick(d)

SpecClient == InitClient /\ [][NextClient]_vars

\* A step of a request() that has been called: every await of _request
\* and of refresh_access_token completes (each HTTP call returns or times
\* out, each token manager call returns or raises).
RequestStep ==
    \/ \E c \in Clients, o \in HttpOutcomes : Send1(c, o)
    \/ \E c \in Clients, o \in BackendOutcomes : RefreshBegin(c, o)
    \/ \E c \in Clients : \E d \in TokenData(c) : RefreshPostOk(c, d)
    \/ \E c \in Clients, k \in RefreshFailures : RefreshPostFail(c, k)
    \/ \E c \in Clients, o \in {"ok", "false", "ClientError", "BotoCoreError"} :
          RefreshStore(c, o)
    \/ \E c \in Clients, o \in BackendOutcomes : Reauth(c, o)
    \/ \E c \in Clients, o \in HttpOutcomes : Send2(c, o)

SpecClientLive == SpecClient /\ WF_vars(RequestStep)

\* ------------------------------------------- token managers, direct calls
\* Arguments of direct store_tokens calls.
StoreExpiresIns == {0, 300}
StoreArgsSet ==
    {StoreArgs(a, r, e, "Bearer") :
        a \in AccessTokens, r \in RefreshTokens, e \in StoreExpiresIns}

\* Answers the backend can give to a call about the user's record: it
\* reports ResourceNotFoundException only when it holds no record.
CallOutcomes ==
    IF manager = "agentcore"
    THEN IF token_storage = NoRecord
         THEN BackendOutcomes
         ELSE BackendOutcomes \ {"ResourceNotFoundException"}
    ELSE {"ok"}

\* datetime.isoformat() and datetime.fromisoformat().
IsoFormat(t) == [iso |-> t]
FromIsoFormat(str) == str.iso

\* store_tokens: True when written, False (AgentCore `except Exception`),
\* or the re-raised ClientError / BotoCoreError.
StoreReturn(outcome) ==
    CASE outcome = "ok" -> "True"
      [] outcome = "false" -> "False"
      [] OTHER -> Raised(outcome)

\* SimpleTokenManager.check_token_status.
SimpleCheckTokenStatus_ExclusiveExpiry(rec, t) ==
    IF rec = NoRecord
    THEN Status(FALSE, TRUE, << >>, "No tokens found")
    ELSE LET is_expired == t > rec.expires_at
         IN Status(~is_expired, is_expired,
                   <<IsoFormat(rec.expires_at)>>, None)
SimpleCheckTokenStatus(rec, t) ==
    IF rec = NoRecord
    THEN Status(FALSE, TRUE, << >>, "No tokens found")
    ELSE LET is_expired == t >= rec.expires_at
         IN Status(~is_expired, is_expired,
                   <<IsoFormat(rec.expires_at)>>, None)

\* AgentCoreTokenManager.check_token_status: the backend's expiresAt is the
\* isoformat string store_tokens sent; every exception gives an error dict.
AgentCoreCheckTokenStatus(rec, outcome, t) ==
    CASE outcome = "ok" ->
            IF rec = NoRecord
            THEN Status(FALSE, TRUE, << >>, "No tokens found")
            ELSE LET expires_at_str == IsoFormat(rec.expires_at)
                     is_expired == t >= FromIsoFormat(expires_at_str)
                 IN Status(~is_expired, is_expired, <<expires_at_str>>, None)
      [] outcome = "ResourceNotFoundException" ->
            Status(FALSE, TRUE, << >>, "No tokens found")
      [] outcome = "ClientError" -> Status(FALSE, TRUE, << >>, "AWS error")
      [] outcome = "BotoCoreError" ->
            Status(FALSE, TRUE, << >>, "BotoCore error")
      [] OTHER -> Status(FALSE, TRUE, << >>, "Unexpected error")

CheckTokenStatus(outcome) ==
    IF manager = "simple"
    THEN SimpleCheckTokenStatus(token_storage, now)
    ELSE AgentCoreCheckTokenStatus(token_storage, outcome, now)

\* revoke_tokens: SimpleTokenManager deletes the entry when present and
\* returns True; AgentCoreTokenManager returns True when the backend call
\* returns or reports ResourceNotFoundException, re-raises other
\* ClientErrors and BotoCoreErrors, returns False on other exceptions.
RevokeReturn_FalseWhenAbsent(rec, outcome) ==
    IF rec = NoRecord THEN "False" ELSE "True"
RevokeReturn(rec, outcome) ==
    CASE outcome \in {"ok", "ResourceNotFoundException"} -> "True"
      [] outcome \in {"ClientError", "BotoCoreError"} -> Raised(outcome)
      [] OTHER -> "False"

\* A caller awaits store_tokens(args).
CallStore(args, outcome) ==
    /\ outcome \in StoreOutcomes(manager)
    /\ StoreEffect(args, outcome)
    /\ call' = Call("store_tokens", args, outcome, StoreReturn(outcome),
                    NoStatus)
    /\ UNCHANGED <<now, manager, has_config, env_token, state_cache, issued,
                   consumed, cb, req, provider, config>>

\* A caller awaits get_access_token().
CallGetAccessToken(outcome) ==
    /\ outcome \in CallOutcomes
    /\ call' = Call("get_access_token", NoArgs, outcome,
                    GetAccessToken(outcome), NoStatus)
    /\ UNCHANGED <<now, manager, has_config, token_storage, env_token,
                   state_cache, issued, consumed, cb, req, hist, provider, config>>

\* A caller awaits get_refresh_token().
CallGetRefreshToken(outcome) ==
    /\ outcome \in CallOutcomes
    /\ call' = Call("get_refresh_token", NoArgs, outcome,
                    GetRefreshToken(outcome), NoStatus)
    /\ UNCHANGED <<now, manager, has_config, token_storage, env_token,
                   state_cache, issued, consumed, cb, req, hist, provider, config>>

\* A caller awaits check_token_status().
CallCheckTokenStatus(outcome) ==
    /\ outcome \in CallOutcomes
    /\ call' = Call("check_token_status", NoArgs, outcome, None,
                    CheckTokenStatus(outcome))
    /\ UNCHANGED <<now, manager, has_config, token_storage, env_token,
                   state_cache, issued, consumed, cb, req, hist, provider, config>>

\* A caller awaits revoke_tokens().
CallRevoke(outcome) ==
    /\ outcome \in CallOutcomes
    /\ LET ret == RevokeReturn(token_storage, outcome)
       IN /\ token_storage' = IF outcome = "ok" THEN NoRecord
                                              ELSE token_storage
          /\ call' = Call("revoke_tokens", NoArgs, outcome, ret, NoStatus)
          /\ hist' = [hist EXCEPT !.revoked = @ \/ ret = "True"]
    /\ UNCHANGED <<now, manager, has_config, env_token, state_cache, issued,
                   consumed, cb, req, provider, config>>

InitStore ==
    /\ now = 0
    /\ manager \in {"simple", "agentcore"}
    /\ has_config = TRUE
    /\ token_storage = NoRecord
    /\ env_token = None
    /\ state_cache = << >>
    /\ issued = {}
    /\ consumed = {}
    /\ cb = [p \in CbProcs |-> IdleCb]
    /\ req = [c \in Clients |-> IdleReq]
    /\ call = NoCall
    /\ hist = NoHist
    /\ provider = NoProvider
    /\ config = NoConfig

NextStore ==
    \/ \E a \in StoreArgsSet, o \in {"ok", "false", "ClientError", "BotoCoreError"} :
          CallStore(a, o)
    \/ \E o \in BackendOutcomes : CallGetAccessToken(o)
    \/ \E o \in BackendOutcomes : CallGetRefreshToken(o)
    \/ \E o \in BackendOutcomes : CallCheckTokenStatus(o)
    \/ \E o \in BackendOutcomes : CallRevoke(o)
    \/ \E d \in TickSteps : Tick(d)

SpecStore == InitStore /\ [][NextStore]_vars

\* ------------------------------------------------- concurrent requests
\* Two coroutines call request() for one user on the in-memory store, with
\* an authorization server that invalidates the refresh token it was
\* given each time it answers a refresh.
RaceClients == {"c1", "c2"}
\* The refresh token the server issues when it answers c's refresh.
RaceRefreshToken(c) == IF c = "c1" THEN "rt1" ELSE "rt2"
\* The stored record: its access token is no longer accepted by the API,
\* its refresh token is the one the server accepts.
RaceRecord ==
    [access_token |-> "at0", refresh_token |-> "rt0",
     token_type |-> "Bearer", expires_at |-> DEFAULT_EXPIRES_IN]

\* The API answers 200 to an access token the server accepts, else 401.
ApiAnswer(tok) ==
    [kind |-> "response",
     status |-> IF tok \in provider.access_tokens THEN 200 ELSE 401,
     headers |-> NoHeaders]
\* The token endpoint accepts only the refresh token issued last.
ProviderAccepts(rt) == rt = provider.refresh_token

RaceRequest(c) == Request(c, "ok")
RaceSend1(c) == Send1(c, ApiAnswer(req[c].token))
RaceRefreshBegin(c) == RefreshBegin(c, "ok")
\* The refresh POST: answered 200 with a new pair when it carries the
\* current refresh token, which is thereby replaced; rejected otherwise.
RaceRefreshPost(c) ==
    IF ProviderAccepts(req[c].rt)
    THEN /\ RefreshPosted(c, [access_token |-> IssuedTo(c),
                              refresh_token |-> RaceRefreshToken(c),
                              expires_in |-> DEFAULT_EXPIRES_IN])
         /\ provider' = [refresh_token |-> RaceRefreshToken(c),
                         access_tokens |->
                            provider.access_tokens \cup {IssuedTo(c)}]
    ELSE RefreshPostFail(c, "non200")
RaceRefreshStore(c) == RefreshStore(c, "ok")
RaceReauth(c) == Reauth(c, "ok")
RaceSend2(c) == Send2(c, ApiAnswer(req[c].token))

InitRace ==
    /\ now = 0
    /\ manager = "simple"
    /\ has_config = TRUE
    /\ token_storage = RaceRecord
    /\ env_token = None
    /\ state_cache = << >>
    /\ issued = {}
    /\ consumed = {}
    /\ cb = [p \in CbProcs |-> IdleCb]
    /\ req = [c \in RaceClients |-> IdleReq]
    /\ call = NoCall
    /\ hist = NoHist
    /\ provider = [refresh_token |-> "rt0", access_tokens |-> {}]
    /\ config = NoConfig

NextRace ==
    \/ \E c \in RaceClients : RaceRequest(c)
    \/ \E c \in RaceClients : RaceSend1(c)
    \/ \E c \in RaceClients : RaceRefreshBegin(c)
    \/ \E c \in RaceClients : RaceRefreshPost(c)
    \/ \E c \in RaceClients : RaceRefreshStore(c)
    \/ \E c \in RaceClients : RaceReauth(c)
    \/ \E c \in RaceClients : RaceSend2(c)

SpecRace == InitRace /\ [][NextRace]_vars

\* ------------------------------------- callback and request on one store
\* One handle_callback coroutine and one request() coroutine working on
\* the record of the same user.
RecordCb == "p1"
RecordClient == "c1"
\* API answers that matter for the record: 200, 401 and a network failure.
RecordHttpOutcomes ==
    {o \in HttpOutcomes :
        \/ o.kind = "ConnectionError"
        \/ o.kind = "response" /\ o.status \in {200, 401}}

InitRecord ==
    /\ now = 0
    /\ manager \in {"simple", "agentcore"}
    /\ has_config = TRUE
    /\ token_storage \in StoredRecords \cup {NoRecord}
    /\ env_token = None
    /\ state_cache = << >>
    /\ issued = {}
    /\ consumed = {}
    /\ cb = [p \in CbProcs |-> IdleCb]
    /\ req = [c \in Clients |-> IdleReq]
    /\ call = NoCall
    /\ hist = NoHist
    /\ provider = NoProvider
    /\ config = NoConfig

NextRecord ==
    \/ GenerateAuthUrl("s1")
    \/ \E s \in States : HandleCallback(RecordCb, s)
    \/ \E d \in TokenData(RecordCb) : ExchangeOk(RecordCb, d)
    \/ \E k \in ExchangeFailures : ExchangeFail(RecordCb, k)
    \/ GetAccessibleResources(RecordCb, "ok")
    \/ GetUserInfo(RecordCb, "ok")
    \/ \E o \in {"ok", "false", "ClientError", "BotoCoreError"} :
          StoreTokens(RecordCb, o)
    \/ \E o \in BackendOutcomes : Request(RecordClient, o)
    \/ \E o \in RecordHttpOutcomes : Send1(RecordClient, o)
    \/ \E o \in BackendOutcomes : RefreshBegin(RecordClient, o)
    \/ \E d \in TokenData(RecordClient) : RefreshPostOk(RecordClient, d)
    \/ \E k \in RefreshFailures : RefreshPostFail(RecordClient, k)
    \/ \E o \in {"ok", "false", "ClientError", "BotoCoreError"} :
          RefreshStore(RecordClient, o)
    \/ \E o \in BackendOutcomes : Reauth(RecordClient, o)
    \/ \E o \in RecordHttpOutcomes : Send2(RecordClient, o)
    \/ Tick(301)

SpecRecord == InitRecord /\ [][NextRecord]_vars

\* ------------------------------------------------ AtlassianOAuthConfig
\* Strings whose prefix matters are sequences of characters.
Https == <<"h", "t", "t", "p", "s", ":", "/", "/">>
HttpLocalhost ==
    <<"h", "t", "t", "p", ":", "/", "/", "l", "o", "c", "a", "l", "h", "o",
      "s", "t">>
\* str.startswith
startswith(s, prefix) ==
    /\ Len(s) >= Len(prefix)
    /\ SubSeq(s, 1, Len(prefix)) = prefix

ClientIds == {<< >>, <<"i", "d">>}
ClientSecrets == {<< >>, <<"s", "e", "c">>}
RedirectUris ==
    {<< >>,
     Https \o <<"a", "/", "c", "b">>,
     HttpLocalhost \o <<":", "8", "0", "/", "c", "b">>,
     HttpLocalhost,
     <<"h", "t", "t", "p", ":", "/", "/", "a", "/", "c", "b">>,
     <<"h", "t", "t", "p", "s", ":", "/">>,
     <<"f", "t", "p", ":", "/", "/", "a">>}
DEFAULT_SCOPES ==
    <<"read:jira-work", "write:jira-work", "read:jira-user",
      "read:page:confluence", "read:blogpost:confluence",
      "read:space:confluence", "read:content:confluence", "offline_access">>
ScopesArgs == {None, << >>, <<"read:jira-work">>}

\* __init__, line 65: scopes or self.DEFAULT_SCOPES
Scopes(scopes) ==
    IF scopes = None THEN DEFAULT_SCOPES
    ELSE IF scopes = << >> THEN DEFAULT_SCOPES
    ELSE scopes

\* _validate, lines 79-96: the message of the ValueError raised, or None.
\* The checks run in order and the first that fails raises.
Validate(c) ==
    IF c.client_id = << >> THEN "ATLASSIAN_OAUTH_CLIENT_ID is required"
    ELSE IF c.client_secret = << >>
         THEN "ATLASSIAN_OAUTH_CLIENT_SECRET is required"
    ELSE IF c.redirect_uri = << >>
         THEN "ATLASSIAN_OAUTH_REDIRECT_URI is required"
    ELSE IF ~startswith(c.redirect_uri, Https)
              /\ ~startswith(c.redirect_uri, HttpLocalhost)
         THEN "ATLASSIAN_OAUTH_REDIRECT_URI must use HTTPS"
    ELSE IF Scopes(c.scopes) = << >>
         THEN "At least one OAuth scope is required"
    ELSE None

\* AtlassianOAuthConfig(client_id, client_secret, redirect_uri, scopes):
\* the attributes are assigned, then _validate runs.
Construct ==
    /\ config.pc = "args"
    /\ config' = [config EXCEPT !.pc = "done",
                                !.error = Validate(config)]
    /\ UNCHANGED <<now, manager, has_config, token_storage, env_token,
                   state_cache, issued, consumed, cb, req, call, hist,
                   provider>>

InitConfig ==
    /\ now = 0
    /\ manager = "simple"
    /\ has_config = FALSE
    /\ token_storage = NoRecord
    /\ env_token = None
    /\ state_cache = << >>
    /\ issued = {}
    /\ consumed = {}
    /\ cb = [p \in CbProcs |-> IdleCb]
    /\ req = [c \in Clients |-> IdleReq]
    /\ call = NoCall
    /\ hist = NoHist
    /\ provider = NoProvider
    /\ config \in [pc : {"args"}, client_id : ClientIds,
                    client_secret : ClientSecrets,
                    redirect_uri : RedirectUris, scopes : ScopesArgs,
                    error : {None}]

NextConfig == Construct

SpecConfig == InitConfig /\ [][NextConfig]_vars

\* ------------------------------------------------------- claims, OAuth flow
InFlight(p) == cb[p].pc \notin {"idle", "done"}

\* C1: a CSRF state is one-time use.  Once a callback has presented a state
\* while it was pending (whatever that callback's outcome), the state is no
\* longer in the pending set, and every later callback presenting it is
\* rejected with invalid_state.
C1_StateOneTimeUse ==
    /\ \A s \in consumed : s \notin DOMAIN state_cache
    /\ \A p \in CbProcs :
          cb[p].seen = "consumed" =>
             /\ ~cb[p].validated
             /\ cb[p].pc = "done"
             /\ cb[p].result = "invalid_state"

C1_Witness ==
    \E p, q \in CbProcs :
       /\ cb[p].seen = "pending" /\ cb[p].pc = "done"
       /\ cb[p].result \notin {"success", "invalid_state"}
       /\ cb[q].seen = "consumed" /\ cb[q].state = cb[p].state
       /\ cb[q].result = "invalid_state"

\* C2: a callback presenting a pending state passes validation iff the state
\* is at most 600 seconds old; an older state is rejected with
\* invalid_state; either way the state has left the pending set.
C2_StateExpiry ==
    \A p \in CbProcs :
       cb[p].seen = "pending" =>
          /\ cb[p].validated <=> (cb[p].age <= 600)
          /\ ~cb[p].validated => cb[p].result = "invalid_state"
          /\ cb[p].state \notin DOMAIN state_cache

C2_Witness ==
    \E p \in CbProcs :
       /\ cb[p].seen = "pending" /\ cb[p].age = 601
       /\ cb[p].result = "invalid_state"
       /\ cb[p].state \notin DOMAIN state_cache

\* C3: a callback presenting a state generate_auth_url never issued returns
\* invalid_state at once: no token-endpoint, accessible-resources or
\* user-info request and no token-store write is made by that call.
C3_UnknownStateRejected ==
    \A p \in CbProcs :
       cb[p].seen = "never_issued" =>
          /\ cb[p].pc = "done"
          /\ cb[p].result = "invalid_state"
          /\ cb[p].token_calls = 0
          /\ cb[p].resource_calls = 0
          /\ cb[p].userinfo_calls = 0
          /\ cb[p].store_calls = 0

C3_Witness ==
    \E p \in CbProcs :
       /\ cb[p].seen = "never_issued"
       /\ cb[p].state \notin issued
       /\ cb[p].result = "invalid_state"
       /\ issued # {}

\* C4: of two callbacks carrying the same state value, interleaved at every
\* await, at most one passes state validation; the other one returns
\* invalid_state.
C4_AtMostOnceValidation ==
    \A p, q \in CbProcs :
       (p # q /\ cb[p].pc # "idle" /\ cb[q].pc # "idle"
          /\ cb[p].state = cb[q].state) =>
          /\ ~(cb[p].validated /\ cb[q].validated)
          /\ cb[p].validated => cb[q].result = "invalid_state"

C4_Witness ==
    \E p, q \in CbProcs :
       /\ p # q
       /\ InFlight(p) /\ cb[p].validated
       /\ cb[q].pc = "done" /\ cb[q].state = cb[p].state
       /\ cb[q].result = "invalid_state"

\* ------------------------------------------------------ claims, API client
Finished(c) == req[c].pc = "done"
\* HTTP calls one request() made: attempts of both rounds and refresh POSTs.
HttpCalls(c) == req[c].attempts1 + req[c].attempts2 + req[c].token_posts

\* C5: when the first response is 401, the refresh succeeds and the reissued
\* request is answered 401 again, the caller of request() gets
\* InvalidTokenError.
C5_SecondUnauthorizedIsInvalidToken ==
    \A c \in Clients :
       (Finished(c) /\ req[c].status1 = 401 /\ req[c].refresh_ok
          /\ req[c].status2 = 401) =>
          req[c].result = "InvalidTokenError"

\* C6 as stated: after a first 401 the refresh is invoked exactly once, the
\* request is reissued exactly once when the refresh succeeds, and a 401 on
\* the reissue ends the call with 3 HTTP calls in total.
C6_ThreeHttpCalls ==
    \A c \in Clients :
       (Finished(c) /\ req[c].status1 = 401) =>
          /\ req[c].refresh_calls = 1
          /\ req[c].refresh_ok => req[c].attempts2 >= 1
          /\ req[c].status2 = 401 => HttpCalls(c) = 3

\* C6 amended: after a first 401 the refresh is invoked exactly once with at
\* most one POST to the token endpoint; the request is reissued (one
\* retry-wrapped round, never a second one) exactly when the refresh
\* succeeds and the token store then yields an access token; a 401 on the
\* reissue ends the call, which then made 3 HTTP calls plus one for each
\* attempt that failed with a timeout or connection error (at most 2 per
\* round).
C6_RefreshOnceReissueOnce ==
    \A c \in Clients :
       (Finished(c) /\ req[c].status1 = 401) =>
          /\ req[c].refresh_calls = 1
          /\ req[c].token_posts <= 1
          /\ req[c].attempts2 >= 1 <=>
                (req[c].refresh_ok /\ req[c].reauth = "token")
          /\ req[c].attempts2 <= MAX_ATTEMPTS
          /\ req[c].status2 = 401 =>
                /\ HttpCalls(c) = 3 + req[c].net_fails
                /\ req[c].net_fails <= 4
                /\ req[c].token_posts = 1

C6_Witness ==
    \E c \in Clients :
       /\ Finished(c) /\ req[c].status1 = 401 /\ req[c].status2 = 401
       /\ req[c].refresh_ok /\ req[c].net_fails = 0 /\ HttpCalls(c) = 3

\* C7: when the stored access token has expired (now >= expires_at) and a
\* refresh token is stored, a request() through the client (here on the
\* in-memory store, whose reads cannot fail) is carried through a refresh:
\* it never ends in an authentication error without refresh_access_token
\* having been invoked.
C7_TransparentRefreshOnExpiry ==
    \A c \in Clients :
       (Finished(c) /\ manager = "simple"
          /\ req[c].pre = "expired_refreshable") =>
          ~(/\ req[c].result \in {"InvalidTokenError", "TokenExpiredError"}
            /\ req[c].refresh_calls = 0)

\* C8: when the first response is 401 and refresh_access_token reports
\* failure, whatever the reason, request() raises TokenRefreshError and the
\* original request is not reissued.
C8_RefreshFailureIsTokenRefreshError ==
    \A c \in Clients :
       (req[c].status1 = 401 /\ ~req[c].refresh_ok) =>
          /\ req[c].pc \notin {"reauth", "send2"}
          /\ req[c].attempts2 = 0
          /\ Finished(c) =>
                /\ req[c].result = "TokenRefreshError"
                /\ req[c].refresh_error # None

C8_Witness ==
    \E c \in Clients :
       /\ Finished(c) /\ req[c].status1 = 401 /\ ~req[c].refresh_ok
       /\ req[c].refresh_error = "storage_error"
       /\ req[c].result = "TokenRefreshError"

\* What lines 174-213 raise for the statuses the claim names.
ExpectedKind(status) ==
    CASE status = 403 -> "PermissionError"
      [] status = 404 -> "ResourceNotFoundError"
      [] status = 429 -> "RateLimitError"
      [] OTHER -> "ServerError"

\* The parts of C9 that do not count HTTP calls.
C9_Surfaced(c) ==
    /\ req[c].refresh_calls = 0
    /\ req[c].token_posts = 0
    /\ req[c].attempts2 = 0
    /\ (req[c].status1 >= 200 /\ req[c].status1 <= 299) =>
          (req[c].result = "response" /\ req[c].result_status = req[c].status1)
    /\ (req[c].status1 \in {403, 404, 429} \/ req[c].status1 >= 500) =>
          /\ req[c].result = ExpectedKind(req[c].status1)
          /\ req[c].result_status = req[c].status1
    /\ token_storage = req[c].store0

\* C9 as stated: a first response other than 401 means exactly one HTTP
\* call, no refresh, the 2xx response returned unchanged, 403/404/429/5xx
\* surfaced at once, and the token store unchanged.
C9_ExactlyOneHttpCall ==
    \A c \in Clients :
       (Finished(c) /\ req[c].status1 \notin {0, 401}) =>
          /\ HttpCalls(c) = 1
          /\ C9_Surfaced(c)

\* C9 amended: a first response other than 401 is the only response of the
\* call: no refresh and no reissue happen, a 2xx response is returned
\* unchanged, 403/404/429/5xx are surfaced at once, the token store is
\* unchanged; the HTTP calls made are that answered attempt plus the
\* attempts (at most 2) that failed before it with a timeout or connection
\* error.
C9_OneResponseNoRefresh ==
    \A c \in Clients :
       (Finished(c) /\ req[c].status1 \notin {0, 401}) =>
          /\ HttpCalls(c) = 1 + req[c].net_fails
          /\ req[c].net_fails <= MAX_ATTEMPTS - 1
          /\ C9_Surfaced(c)

C9_Witness ==
    \E c \in Clients :
       /\ Finished(c) /\ req[c].status1 = 429 /\ req[c].net_fails = 0
       /\ HttpCalls(c) = 1 /\ req[c].result = "RateLimitError"
       /\ token_storage # NoRecord

\* C10: when the token store returns no access token, request() raises
\* InvalidTokenError before any HTTP call is issued.
C10_NoTokenNoHttpCall ==
    \A c \in Clients :
       req[c].auth = "absent" =>
          /\ Finished(c)
          /\ req[c].result = "InvalidTokenError"
          /\ HttpCalls(c) = 0
          /\ req[c].refresh_calls = 0

C10_Witness ==
    \E c \in Clients :
       /\ req[c].auth = "absent" /\ req[c].pre = "absent"
       /\ req[c].result = "InvalidTokenError"

\* C11: when every attempt of the request fails with a timeout or a
\* connection error, the client makes exactly 3 attempts and the caller of
\* request() gets NetworkError.
C11_ExhaustedRetriesIsNetworkError ==
    \A c \in Clients :
       (Finished(c) /\ req[c].attempts1 >= 1 /\ req[c].attempts2 = 0
          /\ req[c].refresh_calls = 0
          /\ req[c].net_fails = req[c].attempts1) =>
          /\ req[c].attempts1 = MAX_ATTEMPTS
          /\ req[c].result = "NetworkError"

\* The failure kinds of atlassian_exceptions.py that request() documents.
Taxonomy ==
    {"TokenExpiredError", "TokenRefreshError", "InvalidTokenError",
     "RateLimitError", "PermissionError", "ResourceNotFoundError",
     "ServerError", "NetworkError", "APIError"}

\* C12: every request() ends with the response or with exactly one kind of
\* the taxonomy; no exception of the HTTP library, of the retry library or
\* of the token backend reaches the caller.
C12_OnlyTaxonomyKinds ==
    \A c \in Clients :
       Finished(c) => req[c].result \in Taxonomy \cup {"response"}

\* History: the first response carried the header Retry-After: v.
RetryAfterIs(c, v) ==
    /\ "Retry-After" \in DOMAIN req[c].headers1
    /\ req[c].headers1["Retry-After"] = v

\* What C13 expects of retry_after for the header values of the model.
C13_RetryAfter(c) ==
    /\ req[c].result = "RateLimitError"
    /\ RetryAfterIs(c, <<"5">>) => req[c].retry_after = <<5>>
    /\ RetryAfterIs(c, <<"1", "2">>) => req[c].retry_after = <<12>>
    /\ RetryAfterIs(c, <<"0">>) => req[c].retry_after = <<0>>
    /\ (~ \E v \in {<<"5">>, <<"1", "2">>, <<"0">>} : RetryAfterIs(c, v)) =>
          req[c].retry_after = NoInt

C14_NamedStatuses(c) ==
    LET s == req[c].status1
    IN /\ s \in 200..299 =>
            req[c].result = "response" /\ req[c].result_status = s
       /\ s = 401 => req[c].refresh_calls = 1
       /\ s = 429 => req[c].result = "RateLimitError"
       /\ s = 403 => req[c].result = "PermissionError"
       /\ s = 404 => req[c].result = "ResourceNotFoundError"
       /\ s >= 500 =>
            req[c].result = "ServerError" /\ req[c].result_status = s

\* C14 as stated: the mapping of the first response is total; every status
\* outside 200..299 that is none of 401, 429, 403, 404, 5xx gives the
\* generic APIError, and no non-2xx status is returned as a response.
C14_StatusMappingTotal ==
    \A c \in Clients :
       (Finished(c) /\ req[c].status1 # 0) =>
          /\ C14_NamedStatuses(c)
          /\ (req[c].status1 \notin (200..299) \cup {401, 429, 403, 404}
                /\ req[c].status1 < 500) => req[c].result = "APIError"
          /\ (req[c].result = "response" /\ req[c].attempts2 = 0) =>
                req[c].result_status \in 200..299

\* C14 amended: 2xx is returned, 401 starts the refresh cycle, 429, 403, 404
\* and 5xx raise their kinds, every other status in 400..499 gives the
\* generic APIError, and a status below 200 or in 300..399 is returned to
\* the caller as the response; no status of 400 or more is returned as a
\* response.
C14_StatusMappingErrorsOnly ==
    \A c \in Clients :
       (Finished(c) /\ req[c].status1 # 0) =>
          /\ C14_NamedStatuses(c)
          /\ (req[c].status1 \in 400..499
                /\ req[c].status1 \notin {401, 429, 403, 404}) =>
                req[c].result = "APIError"
          /\ (req[c].status1 < 200 \/ req[c].status1 \in 300..399) =>
                req[c].result = "response"
                   /\ req[c].result_status = req[c].status1
          /\ (req[c].result = "response" /\ req[c].attempts2 = 0) =>
                req[c].result_status < 400

C14_Witness ==
    \E c \in Clients :
       /\ Finished(c) /\ req[c].status1 = 304
       /\ req[c].result = "response" /\ req[c].result_status = 304

\* ------------------------------------------------ claims, token managers
\* The latest call is a read that came right after a store_tokens call
\* that returned True: no time and no revoke in between.
FollowsStore ==
    /\ call.op \in {"get_access_token", "check_token_status"}
    /\ hist.stored /\ ~hist.revoked /\ call.t = hist.t

\* What C15 says of the call that follows a store.
C15_RoundTrip ==
    /\ call.op = "get_access_token" => call.ret = hist.args.access_token
    /\ call.op = "check_token_status" =>
          call.status.is_valid /\ ~call.status.is_expired

\* C15 as stated (in-memory store): after every store_tokens call that
\* returns True, an immediately following get_access_token returns the
\* stored access token and an immediately following check_token_status
\* reports is_valid and not is_expired.
C15_StoreRoundTrip ==
    (manager = "simple" /\ FollowsStore) => C15_RoundTrip

\* C15 amended (in-memory store): the round trip holds for every
\* store_tokens call with expires_in > 0 that returns True; with
\* expires_in <= 0 the record is expired as soon as it is stored:
\* get_access_token returns None and check_token_status reports
\* is_valid = false, is_expired = true.
C15_StoreRoundTripPositiveLifetime ==
    (manager = "simple" /\ FollowsStore) =>
       IF hist.args.expires_in > 0 THEN C15_RoundTrip
       ELSE /\ call.op = "get_access_token" => call.ret = None
            /\ call.op = "check_token_status" =>
                  ~call.status.is_valid /\ call.status.is_expired

C15_Witness ==
    /\ manager = "simple" /\ FollowsStore /\ hist.args.expires_in > 0
    /\ call.op = "get_access_token" /\ call.ret = "at2"

\* The latest call was made after a revoke_tokens that returned True and
\* before the next store.
AfterRevoke == hist.revoked /\ call.op # "revoke_tokens"

BackendAnswered == call.outcome \in {"ok", "ResourceNotFoundException"}

C17_StatusOf(status, rec, t) ==
    /\ rec # NoRecord => (status.is_expired <=> t >= rec.expires_at)
    /\ status.is_valid <=> (rec # NoRecord /\ ~status.is_expired)
    /\ ~(status.is_valid /\ status.is_expired)
    /\ rec = NoRecord => ~status.is_valid

C19_SuccessIffValidatedExchangedStored ==
    \A p \in CbProcs :
       cb[p].pc = "done" =>
          /\ cb[p].result = "success" <=>
                (cb[p].validated /\ cb[p].exchange = "ok"
                    /\ cb[p].store_outcome = "ok")
          /\ (cb[p].store_calls = 1 /\ cb[p].store_outcome # "ok") =>
                cb[p].result \in {"storage_error", "unexpected_error"}

C19_Witness ==
    \E p \in CbProcs :
       /\ cb[p].pc = "done" /\ cb[p].result = "success"
       /\ cb[p].cloud_id = None /\ cb[p].resource_calls = 1
       /\ cb[p].user_info = "fallback"

\* The error kinds of the failure results of handle_callback (no statement
\* of the handler raises OAuthFlowError, so oauth_flow_error never occurs).
CallbackErrors ==
    {"invalid_state", "invalid_response", "token_exchange_failed",
     "network_error", "storage_error", "unexpected_error"}

\* C20: handle_callback never raises: it ends with success, carrying
\* user_info, cloud_id and expires_in, or with a failure carrying an error
\* kind; a Timeout or other requests exception of the token-exchange POST
\* gives network_error after exactly one request to the token endpoint; an
\* exception raised by store_tokens gives a failure result.
C20_AlwaysAResult ==
    \A p \in CbProcs :
       cb[p].pc = "done" =>
          /\ cb[p].result \in CallbackErrors \cup {"success"}
          /\ cb[p].result = "success" =>
                /\ cb[p].user_info \in {"profile", "fallback"}
                /\ cb[p].cloud_id \in {"cloud1", None}
                /\ cb[p].expires_in \in ExpiresIns \cup {DEFAULT_EXPIRES_IN}
          /\ cb[p].exchange \in {"Timeout", "RequestException"} =>
                /\ cb[p].result = "network_error"
                /\ cb[p].token_calls = 1
                /\ cb[p].store_calls = 0
          /\ IsRaised(cb[p].store_outcome) =>
                cb[p].result = "unexpected_error"

C20_Witness ==
    \E p, q \in CbProcs :
       /\ cb[p].pc = "done" /\ cb[p].exchange = "Timeout"
       /\ cb[p].result = "network_error" /\ cb[p].token_calls = 1
       /\ cb[q].pc = "done" /\ cb[q].store_outcome = "ClientError"
       /\ cb[q].result = "unexpected_error"

\* C21: a handle_callback invocation calls store_tokens only after the
\* state it was given had been issued by generate_auth_url and passed
\* validation and, after that, the token endpoint returned an access token;
\* an invocation that ends with a rejected state, a failed exchange or an
\* exchange without access token made no store_tokens call, and what is
\* stored carries an access token of the token endpoint.
C21_StoreOnlyAfterValidationAndExchange ==
    /\ \A p \in CbProcs :
          /\ cb[p].pc \in {"exchange", "resources", "userinfo", "store"} =>
                (cb[p].validated /\ cb[p].state \in issued
                    /\ cb[p].seen = "pending")
          /\ cb[p].pc \in {"resources", "userinfo", "store"} =>
                (cb[p].exchange = "ok" /\ cb[p].token_calls = 1
                    /\ cb[p].access_token \in AccessTokens)
          /\ cb[p].store_calls >= 1 =>
                (cb[p].validated /\ cb[p].state \in issued
                    /\ cb[p].exchange = "ok" /\ cb[p].token_calls = 1)
          /\ (cb[p].pc = "done" /\ (~cb[p].validated \/ cb[p].exchange # "ok")) =>
                (cb[p].store_calls = 0 /\ cb[p].store_outcome = None)
    /\ token_storage # NoRecord =>
          /\ token_storage.access_token \in AccessTokens
          /\ \E p \in CbProcs : cb[p].store_outcome = "ok"

C21_Witness ==
    \E p, q \in CbProcs :
       /\ cb[p].pc = "done" /\ cb[p].result = "success"
       /\ cb[p].store_calls = 1 /\ token_storage # NoRecord
       /\ cb[q].pc = "done" /\ cb[q].exchange = "no_access_token"
       /\ cb[q].store_calls = 0

\* C22: for a record that holds the placeholder NO_REFRESH_TOKEN as its
\* refresh token, refresh is unavailable: a refresh_access_token run on it
\* reports failure and no POST to the token endpoint carries the
\* placeholder.
C22_SentinelNeverSent ==
    \A c \in Clients :
       /\ req[c].rt_sent # NO_REFRESH_TOKEN
       /\ (Finished(c) /\ req[c].refresh_calls = 1 /\ manager = "simple"
             /\ req[c].store0 # NoRecord
             /\ req[c].store0.refresh_token = NO_REFRESH_TOKEN) =>
             (~req[c].refresh_ok /\ req[c].token_posts = 0)

\* SimpleTokenManager.get_refresh_token on a record.
SimpleGetRefreshToken(rec) ==
    IF rec = NoRecord \/ Falsy(rec.refresh_token) THEN None
    ELSE rec.refresh_token

\* C23: the managed store answers every call as the in-memory store answers
\* the same call on the same record at the same time, whatever the state
\* (no record, valid record, expired record, backend error): the same token
\* or None, the same is_valid / is_expired, the same booleans, and no
\* exception where the in-memory store returns.
C23_StoresAgree ==
    manager = "agentcore" =>
       /\ call.op = "store_tokens" => call.ret = "True"
       /\ call.op = "get_access_token" =>
             call.ret = SimpleGetAccessToken(call.rec, call.t)
       /\ call.op = "get_refresh_token" =>
             call.ret = SimpleGetRefreshToken(call.rec)
       /\ call.op = "check_token_status" =>
             LET status == SimpleCheckTokenStatus(call.rec, call.t)
             IN /\ call.status.is_valid = status.is_valid
                /\ call.status.is_expired = status.is_expired
       /\ call.op = "revoke_tokens" => call.ret = "True"

\* The stored pair is usable: the API accepts its access token and the
\* token endpoint accepts its refresh token.
StoreUsable ==
    /\ token_storage # NoRecord
    /\ token_storage.access_token \in provider.access_tokens
    /\ ProviderAccepts(token_storage.refresh_token)

C24_FirstRefreshWins ==
    /\ \A c \in RaceClients :
          (Finished(c) /\ req[c].status1 = 401) =>
             /\ req[c].refresh_calls = 1 /\ req[c].token_posts = 1
             /\ IF req[c].refresh_ok
                THEN req[c].result = "response" /\ req[c].result_status = 200
                ELSE /\ req[c].result = "TokenRefreshError"
                     /\ req[c].rt_sent # provider.refresh_token
                     /\ \E d \in RaceClients \ {c} :
                           /\ req[d].rt_sent = req[c].rt_sent
                           /\ req[d].pc \in {"refresh_store", "reauth", "send2",
                                             "done"}
                           /\ req[d].refresh_error = None
    /\ (\A c \in RaceClients : Finished(c)) =>
          /\ \E c \in RaceClients : req[c].result = "response"
          /\ StoreUsable

C24_Witness ==
    \E c, d \in RaceClients :
       /\ Finished(c) /\ req[c].status1 = 401 /\ req[c].result = "response"
       /\ Finished(d) /\ req[d].status1 = 401
       /\ req[d].result = "TokenRefreshError" /\ req[d].rt_sent = "rt0"
       /\ StoreUsable

\* C25: no log record emitted while request() and the token store run
\* contains the value of an access token, a refresh token or the client
\* secret, so the log text does not depend on those values.
C25_NoSecretInLog ==
    \A c \in Clients : req[c].log = {}

\* The constraints a construction violates.
Violated(c) ==
    {m \in {"ATLASSIAN_OAUTH_CLIENT_ID is required"} : c.client_id = << >>}
    \cup {m \in {"ATLASSIAN_OAUTH_CLIENT_SECRET is required"} :
             c.client_secret = << >>}
    \cup {m \in {"ATLASSIAN_OAUTH_REDIRECT_URI is required"} :
             c.redirect_uri = << >>}
    \cup {m \in {"ATLASSIAN_OAUTH_REDIRECT_URI must use HTTPS"} :
             /\ c.redirect_uri # << >>
             /\ ~startswith(c.redirect_uri, Https)
             /\ ~startswith(c.redirect_uri, HttpLocalhost)}

\* The constraints the error of a finished construction names.
Enumerated(c) == IF c.error = None THEN {} ELSE {c.error}

\* C26: constructing an OAuthConfig fails with an error that enumerates
\* every violated constraint of client_id, client_secret and redirect_uri
\* (not only the first encountered), fails with the one constraint when
\* exactly one is violated, and succeeds when none is.
C26_AllViolationsReported ==
    config.pc = "done" => Enumerated(config) = Violated(config)

\* What holds instead: the error names one violated constraint, and there
\* is an error exactly when some constraint is violated.
C26_OneViolationReported ==
    config.pc = "done" =>
       /\ Enumerated(config) \subseteq Violated(config)
       /\ (Enumerated(config) = {}) = (Violated(config) = {})

\* C27: after a successful refresh the outcome of the reissued request is
\* mapped as for a first attempt and reaches the caller as that kind: 2xx
\* the response, 429 RateLimitError, 403 PermissionError, 404
\* ResourceNotFoundError, >= 500 ServerError with the status, and a
\* connection or timeout failure of the reissued request NetworkError.
C27_ReissueMappedAsFirstAttempt ==
    \A c \in Clients :
       (Finished(c) /\ req[c].refresh_ok /\ req[c].attempts2 >= 1) =>
          IF req[c].status2 = 0
          THEN req[c].result = "NetworkError"
          ELSE req[c].status2 # 401 =>
                  /\ req[c].result = MapStatus(req[c].status2)
                  /\ req[c].result_status = req[c].status2

\* s is an initial part of t.
IsPrefix(s, t) == Len(s) <= Len(t) /\ s = SubSeq(t, 1, Len(s))

\* C28: the waits the retry policy inserts between the failed attempts of
\* one request follow exponential backoff starting at 2 seconds and
\* doubling (2s, then 4s, then 8s), and no wait exceeds 10 seconds.
C28_WaitsDouble ==
    \A c \in Clients :
       /\ IsPrefix(req[c].waits1, <<2, 4, 8>>)
       /\ IsPrefix(req[c].waits2, <<2, 4, 8>>)
       /\ \A i \in 1..Len(req[c].waits1) : req[c].waits1[i] <= 10
       /\ \A i \in 1..Len(req[c].waits2) : req[c].waits2[i] <= 10

\* What holds instead: at most two waits per round, each of 2 seconds.
C28_WaitsConstant ==
    \A c \in Clients :
       /\ IsPrefix(req[c].waits1, <<2, 2>>)
       /\ IsPrefix(req[c].waits2, <<2, 2>>)

\* This step ends a handle_callback with a failure result.
CallbackFails(p) ==
    /\ cb[p].pc \notin {"idle", "done"}
    /\ cb'[p].pc = "done"
    /\ cb'[p].result # "success"
\* This step ends a refresh_access_token with a failure result.
RefreshFails(c) ==
    /\ req[c].pc \in {"refresh", "refresh_post", "refresh_store"}
    /\ req'[c].refresh_error # None

\* C29: a handle_callback that returns failure and a refresh_access_token
\* that returns failure leave the user's stored token record exactly as it
\* was: no step of such a call changes the record, so a record stored
\* before stays retrievable with the same access_token, refresh_token and
\* expires_at.
C29_FailureLeavesRecord ==
    [][/\ \A p \in CbProcs : CallbackFails(p) => token_storage' = token_storage
       /\ \A c \in Clients : RefreshFails(c) => token_storage' = token_storage
       /\ token_storage' # token_storage =>
             \/ \E p \in CbProcs : cb[p].pc = "store" /\ cb'[p].result = "success"
             \/ \E c \in Clients :
                   req[c].pc = "refresh_store" /\ req'[c].refresh_ok]_vars

C29_Witness ==
    /\ token_storage # NoRecord
    /\ cb[RecordCb].pc = "done" /\ cb[RecordCb].result # "success"
    /\ Finished(RecordClient) /\ req[RecordClient].refresh_calls = 1
    /\ ~req[RecordClient].refresh_ok
    /\ token_storage = req[RecordClient].store0

\* The position of a request() in _request: later code has a higher rank.
PcRank(pc) ==
    CASE pc = "idle" -> 0
      [] pc = "send1" -> 1
      [] pc = "refresh" -> 2
      [] pc = "refresh_post" -> 3
      [] pc = "refresh_store" -> 4
      [] pc = "reauth" -> 5
      [] pc = "send2" -> 6
      [] pc = "done" -> 7

\* C30: every request() call terminates, with a response or an error, after
\* at most two retry-wrapped rounds: at most 3 HTTP attempts for the
\* original request and 3 for the single reissue, at most 1 refresh; no
\* step goes back to an earlier point of the call (no second refresh, no
\* third round), provided each HTTP call returns or times out.
C30_TerminatesWithinTwoRounds ==
    /\ [](\A c \in Clients :
            /\ req[c].attempts1 <= MAX_ATTEMPTS
            /\ req[c].attempts2 <= MAX_ATTEMPTS
            /\ req[c].refresh_calls <= 1
            /\ req[c].token_posts <= 1
            /\ Finished(c) => req[c].result # None)
    /\ [][\A c \in Clients :
            req'[c] # req[c] =>
               \/ PcRank(req'[c].pc) > PcRank(req[c].pc)
               \/ /\ req'[c].pc = req[c].pc
                  /\ req[c].pc \in {"send1", "send2"}
                  /\ req'[c].attempts1 + req'[c].attempts2
                        = req[c].attempts1 + req[c].attempts2 + 1]_vars
    /\ \A c \in Clients : (req[c].pc # "idle") ~> Finished(c)

C30_Witness ==
    \E c \in Clients :
       /\ Finished(c)
       /\ req[c].attempts1 = MAX_ATTEMPTS /\ req[c].attempts2 = MAX_ATTEMPTS
       /\ req[c].refresh_calls = 1 /\ req[c].token_posts = 1

====
